---- MODULE Spec2Model ----
(* gandi-dyn: the zone-update transaction of checkIP (src/main.go), one     *)
(* step per remote call, run against a model of the registrar's versioned   *)
(* zone store.  Strings the code parses or matches (record ids, the         *)
(* resolved IP) are sequences of one-character strings.                     *)
EXTENDS Integers, Sequences, FiniteSets, TLC

VARIABLES
    pc,          \* position of the process inside main/checkIP
    run,         \* number of process invocations started so far
    args,        \* the command line of this invocation
    rsp,         \* getMyIP: the response of the public-IP endpoint
    ip,          \* checkIP: ip
    zoneId,      \* checkIP: zoneId
    newVersion,  \* checkIP: newVersion
    records,     \* updateRecords: records (the listing being ranged over)
    idx,         \* updateRecords: position of the range loop in records
    cur,         \* updateRecords: r (the copy whose Value was set to ip)
    err,         \* the error checkIP returns
    exitCode,    \* process exit status (-1 while running)
    stdout,      \* lines printed on standard output in this invocation
    calls,       \* remote calls issued in this invocation, with results
    versions,    \* registrar: version number -> record listing
    deleted,     \* registrar: version numbers that were deleted
    active,      \* registrar: the active version number
    nextId,      \* registrar: next record identifier to assign
    startRecs,   \* record set of the active version when the run started
    startVers,   \* number of versions when the run started
    startActive, \* the active version number when the run started
    prev         \* ip and outcome of the previous invocation

vars == <<pc, run, args, rsp, ip, zoneId, newVersion, records, idx, cur, err, exitCode,
          stdout, calls, versions, deleted, active, nextId, startRecs,
          startVers, startActive, prev>>

(* ------------------------------ bounds ---------------------------------- *)
MaxRuns == 2
MaxRecs == 3

(* ------------------------------ strings --------------------------------- *)
Digits == <<"0", "1", "2", "3", "4", "5", "6", "7", "8", "9">>

IsDigit(c) == \E i \in 1..10 : Digits[i] = c

RECURSIVE FormatInt(_)
FormatInt(n) ==
    IF n < 10 THEN <<Digits[n + 1]>>
    ELSE Append(FormatInt(n \div 10), Digits[(n % 10) + 1])

RECURSIVE StripZeros(_)
StripZeros(s) ==
    IF Len(s) > 1 /\ s[1] = "0" THEN StripZeros(Tail(s)) ELSE s

DigitVal(c) == (CHOOSE i \in 1..10 : Digits[i] = c) - 1

\* a < b for digit strings of equal length
RECURSIVE DigitsLess(_, _)
DigitsLess(a, b) ==
    IF Len(a) = 0 THEN FALSE
    ELSE IF DigitVal(a[1]) # DigitVal(b[1]) THEN DigitVal(a[1]) < DigitVal(b[1])
    ELSE DigitsLess(Tail(a), Tail(b))

MaxInt64 == <<"9","2","2","3","3","7","2","0","3","6","8","5","4","7","7","5","8","0","7">>
MinInt64Abs == <<"9","2","2","3","3","7","2","0","3","6","8","5","4","7","7","5","8","0","8">>

NoInt == [ok |-> FALSE, neg |-> FALSE, digits |-> <<>>]

\* strconv.ParseInt(id, 10, 64): optional sign, then decimal digits only,
\* and the value has to fit in 64 bits.  The value is kept as its canonical
\* digit string.
ParseInt(s) ==
    LET signed == Len(s) > 0 /\ s[1] \in {"+", "-"}
        neg    == Len(s) > 0 /\ s[1] = "-"
        body   == IF signed THEN Tail(s) ELSE s
        canon  == StripZeros(body)
        limit  == IF neg THEN MinInt64Abs ELSE MaxInt64
    IN  IF Len(body) = 0 \/ \E i \in 1..Len(body) : ~IsDigit(body[i])
        THEN NoInt
        ELSE IF Len(canon) > Len(limit)
                \/ (Len(canon) = Len(limit) /\ DigitsLess(limit, canon))
        THEN NoInt
        ELSE [ok |-> TRUE, neg |-> neg /\ canon # <<"0">>, digits |-> canon]

\* `^\d+\.\d+\.\d+\.\d+$` on the whole of t
IsDottedQuad(t) ==
    /\ Len(t) > 0
    /\ \A i \in 1..Len(t) : IsDigit(t[i]) \/ t[i] = "."
    /\ Cardinality({i \in 1..Len(t) : t[i] = "."}) = 3
    /\ t[1] # "." /\ t[Len(t)] # "."
    /\ \A i \in 1..(Len(t) - 1) : ~(t[i] = "." /\ t[i + 1] = ".")

\* reIP.MatchString(s): the pattern is not anchored
ReIPMatchString(s) ==
    \E i \in 1..Len(s) : \E j \in i..Len(s) : IsDottedQuad(SubSeq(s, i, j))

(* ------------------------------ values ---------------------------------- *)
IP1  == <<"1", ".", "1", ".", "1", ".", "1">>
IP2  == <<"2", ".", "2", ".", "2", ".", "2">>
IP3  == <<"3", ".", "3", ".", "3", ".", "3">>
\* a body that only contains a dotted quad
IPJunk == <<"x", "1", ".", "1", ".", "1", ".", "1">>
\* a body with no dotted quad in it
IPShort == <<"1", ".", "1", ".", "1">>

\* the bodies the public-IP endpoint answers with (IP2 is only a record value)
IPBodies == {IP1, IP3, IPJunk, IPShort}

NoResponse == [kind |-> "none", body |-> <<>>]

HTTPResponses ==
    {[kind |-> k, body |-> <<>>] : k \in {"neterr", "status", "readerr", "badjson"}}
        \cup {[kind |-> "ok", body |-> b] : b \in IPBodies}

\* struct Record
Rec(id, type, name, value, ttl) ==
    [Id |-> id, Type |-> type, Name |-> name, Value |-> value, TTL |-> ttl]

NoRec == Rec(<<>>, "", "", <<>>, 0)

\* struct NewRecord: a record without identifier
NewRecord(r) == [r EXCEPT !.Id = <<>>]

\* an identifier wider than 32 bits, one that is not a number, a small one,
\* and one that is one above the largest 64-bit integer
IdWide == <<"4", "2", "9", "4", "9", "6", "7", "2", "9", "7">>
IdBad  == <<"x", "7">>
IdSmall == <<"1", "0", "0", "2">>
IdHuge == MinInt64Abs

RecPool ==
    << Rec(IdWide, "A", "@", IP1, 300),
       Rec(IdBad, "A", "bad", IP2, 600),
       Rec(IdSmall, "A", "www", IP2, 300),
       Rec(<<"7">>, "MX", "@", <<"m">>, 300),
       Rec(IdHuge, "A", "big", IP1, 300) >>

\* listings of at most MaxRecs records of the pool, in pool order
InitialListings ==
    LET Pick(S) == [i \in 1..Cardinality(S) |->
                      RecPool[CHOOSE k \in S :
                                Cardinality({j \in S : j < k}) = i - 1]]
    IN  {Pick(S) : S \in {T \in SUBSET (1..Len(RecPool)) : Cardinality(T) <= MaxRecs}}

(* ------------------------------ errors ---------------------------------- *)
Err(kind, op, id) == [kind |-> kind, op |-> op, id |-> id]

Nil == Err("nil", "", <<>>)
TransportErr(op) == Err("transport", op, <<>>)
ParseErr(id) == Err("parse", "strconv.ParseInt", id)
NoRecordDeleted == Err("no record deleted", "", <<>>)
ActivationFailed == Err("zone activation failed for unknown reason", "", <<>>)
DeletionFailed == Err("zone version deletion failed for unknown reason", "", <<>>)
IPChanged(addr) == Err("ip changed", "", addr)
MissingArg(which) == Err("missing argument", which, <<>>)
HTTPErr(kind) == Err("http", kind, <<>>)
NotIPv4(body) == Err("does not look like an IPv4", "", body)

(* ------------------------------ registrar ------------------------------- *)
\* The registrar is the remote side of the calls: its effects are modelled
\* from the call contracts of the specification (section 4.1).

\* version 0 names the active version
RegVersion(v) == IF v = 0 THEN active ELSE v

RegList(v) == versions[RegVersion(v)]

\* the identifier a record has in a cloned version: the clone is a fresh
\* snapshot with identifiers of its own, which keep the shape of the source's
RegCloneId(id, v) == id \o FormatInt(v)

RegClone ==
    LET v   == Len(versions) + 1
        src == versions[active]
    IN  Append(versions,
               [i \in 1..Len(src) |-> [src[i] EXCEPT !.Id = RegCloneId(@, v)]])

RegMatches(r, int) == ParseInt(r.Id).ok /\ ParseInt(r.Id) = int

RECURSIVE Without(_, _)
Without(list, int) ==
    IF list = <<>> THEN <<>>
    ELSE IF RegMatches(list[1], int) THEN Without(Tail(list), int)
    ELSE <<list[1]>> \o Without(Tail(list), int)

RegDeleteCount(v, int) ==
    Cardinality({i \in 1..Len(versions[v]) : RegMatches(versions[v][i], int)})

RegDelete(v, int) == [versions EXCEPT ![v] = Without(@, int)]

RegAdd(v, draft) ==
    [versions EXCEPT ![v] = Append(@, [draft EXCEPT !.Id = FormatInt(nextId)])]

RegDeleteVersion(v) == [versions EXCEPT ![v] = <<>>]

(* ------------------------------ call log -------------------------------- *)
Call(op, v, id, rec, res) ==
    [op |-> op, version |-> v, id |-> id, rec |-> rec, res |-> res]

Issue(c) == calls' = Append(calls, c)

Say(line) == stdout' = Append(stdout, line)

(* ------------------------------ main ------------------------------------ *)
\* a main that takes the "ip changed" error for a success
ExitStatusChangedIsSuccess(e) == IF e # Nil /\ e.kind # "ip changed" THEN 1 ELSE 0

\* main: exit status 1 for any error returned by checkIP
ExitStatus(e) == IF e # Nil THEN 1 ELSE 0

\* checkIP returns e to main, which exits
Return(e) ==
    /\ err' = e
    /\ exitCode' = ExitStatus(e)
    /\ pc' = "exited"

LastLine == IF stdout = <<>> THEN "" ELSE stdout[Len(stdout)]

\* the terminal outcome of the invocation, by what checkIP printed last
\* before returning: "unchanged ip" (line 267), "zone activated" (line 290)
Outcome ==
    CASE pc # "exited" -> "none"
      [] pc = "exited" /\ LastLine = "unchanged ip" -> "no changes"
      [] pc = "exited" /\ LastLine = "zone activated" -> "changed"
      [] OTHER -> "failed"

Init ==
    /\ pc = "idle"
    /\ run = 0
    /\ args = ""
    /\ rsp = NoResponse
    /\ ip = <<>>
    /\ zoneId = 0
    /\ newVersion = 0
    /\ records = <<>>
    /\ idx = 0
    /\ cur = NoRec
    /\ err = Nil
    /\ exitCode = -1
    /\ stdout = <<>>
    /\ calls = <<>>
    /\ versions \in {<<l>> : l \in InitialListings}
    /\ deleted = {}
    /\ active = 1
    /\ nextId = 2001
    /\ startRecs = versions[1]
    /\ startVers = 1
    /\ startActive = 1
    /\ prev = [ip |-> <<>>, outcome |-> "none"]

(* ------------------------------ checkIP --------------------------------- *)
CommandLines == {"", "key", "key domain", "-x"}

\* an argument count that is one too high
NArgOffByOne(argv) ==
    CASE argv = "key" -> 2 [] argv = "key domain" -> 3 [] argv = "" -> 1 [] OTHER -> 0

\* flag.NArg() after flag.Parse()
NArg(argv) == CASE argv = "key" -> 1 [] argv = "key domain" -> 2 [] OTHER -> 0

\* a drift detection that does not look at the record type
ChangedAnyType(recs, addr) ==
    \E i \in 1..Len(recs) : recs[i].Value # addr

\* drift detection of checkIP: some "A" record differs from addr
Changed(recs, addr) ==
    \E i \in 1..Len(recs) : recs[i].Type = "A" /\ recs[i].Value # addr

\* a loop that replaces every record whose value is not addr
SkippedValueOnly(r, addr) == r.Value = addr

\* the range loop of updateRecords skips r when r.Type != "A" || r.Value == ip
Skipped(r, addr) == r.Type # "A" \/ r.Value = addr

\* a loop that starts over from the first record after each replacement
NextDiffRestart(recs, from, addr) ==
    LET todo == {i \in 1..Len(recs) : ~Skipped(recs[i], addr)}
    IN  IF todo = {} THEN Len(recs) + 1
        ELSE CHOOSE i \in todo : \A j \in todo : i <= j

NextDiffBreak(recs, from, addr) ==
    IF from > 1 THEN Len(recs) + 1
    ELSE IF from > Len(recs) THEN from
    ELSE CHOOSE i \in from..(Len(recs) + 1) :
            /\ i > Len(recs) \/ ~Skipped(recs[i], addr)
            /\ \A j \in from..(i - 1) : Skipped(recs[j], addr)

\* first position at or after from whose record is not skipped
\* (Len(recs) + 1 when the loop is over)
RECURSIVE NextDiff(_, _, _)
NextDiff(recs, from, addr) ==
    IF from > Len(recs) THEN from
    ELSE IF Skipped(recs[from], addr) THEN NextDiff(recs, from + 1, addr)
    ELSE from

\* a checkIP that activates the new version whatever updateRecords returned
AfterUpdateRecordsIgnoreErr(e) == "SetZoneVersion"

\* checkIP after updateRecords returned e: roll back on an error, activate
\* otherwise
AfterUpdateRecords(e) == IF e # Nil THEN "rollback" ELSE "SetZoneVersion"

\* a loop that forgets r.Value = ip
ReplacementKeepValue(r, addr) == r

\* r := r; r.Value = ip
Replacement(r, addr) == [r EXCEPT !.Value = addr]

\* the loop of updateRecords moves to position i, or is over and
\* updateRecords returns nil
LoopAt(recs, i, addr) ==
    /\ idx' = i
    /\ IF i > Len(recs)
       THEN /\ cur' = NoRec
            /\ pc' = AfterUpdateRecords(Nil)
            /\ stdout' = stdout
       ELSE /\ cur' = Replacement(recs[i], addr)
            /\ pc' = "DeleteRecord"
            /\ Say("updating")

\* main starts: flag.Parse and the argument checks of checkIP
Start(argv) ==
    /\ pc \in {"idle", "exited"}
    /\ run < MaxRuns
    /\ run' = run + 1
    /\ args' = argv
    /\ prev' = [ip |-> ip, outcome |-> Outcome]
    /\ startRecs' = versions[active]
    /\ startVers' = Len(versions)
    /\ startActive' = active
    /\ rsp' = NoResponse
    /\ ip' = <<>> /\ zoneId' = 0 /\ newVersion' = 0
    /\ records' = <<>> /\ idx' = 0 /\ cur' = NoRec
    /\ calls' = <<>>
    /\ IF argv = "-x"
       THEN \* flag.Parse fails and calls flag.Usage, which exits
            /\ stdout' = <<"usage">>
            /\ err' = Nil /\ exitCode' = 1 /\ pc' = "exited"
       ELSE /\ stdout' = <<>>
            /\ IF NArg(argv) < 1 THEN Return(MissingArg("api-key"))
               ELSE IF NArg(argv) < 2 THEN Return(MissingArg("domain"))
               ELSE err' = Nil /\ exitCode' = -1 /\ pc' = "getMyIP"
    /\ UNCHANGED <<versions, deleted, active, nextId>>

\* getMyIP: the value and error it returns for an HTTP response
GetMyIPResult(r) ==
    IF r.kind # "ok" THEN [ip |-> <<>>, err |-> HTTPErr(r.kind)]
    ELSE IF ~ReIPMatchString(r.body)
    THEN [ip |-> <<>>, err |-> NotIPv4(r.body)]
    ELSE [ip |-> r.body, err |-> Nil]

\* a checkIP that does not look at the error of getMyIP
AfterGetMyIPIgnoreErr(r) == "GetZoneId"

\* where checkIP goes after getMyIP returned r
AfterGetMyIP(r) == IF r.err # Nil THEN "return" ELSE "GetZoneId"

GetMyIP(response) ==
    /\ pc = "getMyIP"
    /\ rsp' = response
    /\ LET r == GetMyIPResult(response)
       IN  IF AfterGetMyIP(r) = "return"
           THEN /\ Return(r.err)
                /\ UNCHANGED <<ip, stdout>>
           ELSE /\ ip' = r.ip
                /\ Say("ip")
                /\ pc' = AfterGetMyIP(r)
                /\ UNCHANGED <<err, exitCode>>
    /\ UNCHANGED <<run, args, zoneId, newVersion, records, idx, cur, calls, versions,
                   deleted, active, nextId, startRecs, startVers,
                   startActive, prev>>

\* NewGandiAPI, then api.GetZoneId(domain)
GetZoneId(res) ==
    /\ pc = "GetZoneId"
    /\ IF res = "noclient"
       THEN /\ Return(TransportErr("xmlrpc.NewClient"))
            /\ UNCHANGED <<calls, zoneId, stdout>>
       ELSE /\ Issue(Call("domain.info", 0, <<>>, NoRec, res))
            /\ IF res = "err"
               THEN /\ Return(TransportErr("domain.info"))
                    /\ UNCHANGED <<zoneId, stdout>>
               ELSE /\ zoneId' = 42
                    /\ Say("zoneid")
                    /\ pc' = "GetZoneRecords"
                    /\ UNCHANGED <<err, exitCode>>
    /\ UNCHANGED <<run, args, rsp, ip, newVersion, records, idx, cur, versions, deleted,
                   active, nextId, startRecs, startVers,
                   startActive, prev>>

\* api.GetZoneRecords(zoneId, 0) and the drift detection
GetZoneRecords(res) ==
    /\ pc = "GetZoneRecords"
    /\ Issue(Call("domain.zone.record.list", 0, <<>>, NoRec, res))
    /\ IF res = "err"
       THEN /\ Return(TransportErr("domain.zone.record.list"))
            /\ stdout' = stdout
       ELSE IF ~Changed(RegList(0), ip)
       THEN /\ Say("unchanged ip")
            /\ Return(Nil)
       ELSE /\ pc' = "CopyZoneVersion"
            /\ UNCHANGED <<err, exitCode, stdout>>
    /\ UNCHANGED <<run, args, rsp, ip, zoneId, newVersion, records, idx, cur, versions,
                   deleted, active, nextId, startRecs, startVers,
                   startActive, prev>>

\* a checkIP that takes the rollback path when the clone call failed
AfterCopyZoneVersionRollback(e) == IF e # Nil THEN "rollback" ELSE "updateRecords"

\* where checkIP goes after CopyZoneVersion returned e
AfterCopyZoneVersion(e) == IF e # Nil THEN "return" ELSE "updateRecords"

\* api.CopyZoneVersion(zoneId)
CopyZoneVersion(res) ==
    /\ pc = "CopyZoneVersion"
    /\ Issue(Call("domain.zone.version.new", 0, <<>>, NoRec, res))
    /\ IF res = "err"
       THEN LET e == TransportErr("domain.zone.version.new")
            IN  /\ IF AfterCopyZoneVersion(e) = "return"
                   THEN Return(e)
                   ELSE /\ err' = e
                        /\ pc' = AfterCopyZoneVersion(e)
                        /\ exitCode' = exitCode
                /\ UNCHANGED <<newVersion, versions>>
       ELSE /\ versions' = RegClone
            /\ newVersion' = Len(versions) + 1
            /\ pc' = "updateRecords"
            /\ UNCHANGED <<err, exitCode>>
    /\ UNCHANGED <<run, args, rsp, ip, zoneId, records, idx, cur, stdout, deleted, active,
                   nextId, startRecs, startVers,
                   startActive, prev>>

\* an updateRecords that lists the active version again
ListedVersionActive(version) == 0

\* updateRecords: the version whose records it lists and ranges over
ListedVersion(version) == version

\* updateRecords: api.GetZoneRecords(zoneId, version), then the loop starts
UpdateRecordsList(res) ==
    /\ pc = "updateRecords"
    /\ Issue(Call("domain.zone.record.list", ListedVersion(newVersion), <<>>,
                  NoRec, res))
    /\ IF res = "err"
       THEN /\ err' = TransportErr("domain.zone.record.list")
            /\ pc' = "rollback"
            /\ UNCHANGED <<records, idx, cur, stdout>>
       ELSE /\ records' = RegList(ListedVersion(newVersion))
            /\ LoopAt(records', NextDiff(records', 1, ip), ip)
            /\ err' = err
    /\ UNCHANGED <<run, args, rsp, ip, zoneId, newVersion, exitCode, versions, deleted,
                   active, nextId, startRecs, startVers,
                   startActive, prev>>

\* a DeleteRecord that drops the error of strconv.ParseInt
DeleteRecordArgUnchecked(id) == [ParseInt(id) EXCEPT !.ok = TRUE]

\* DeleteRecord: the identifier placed in the request, parsed from its string
DeleteRecordArg(id) == ParseInt(id)

\* an updateRecords that does not look at the count of deleted records
CountErrUnchecked(n) == Nil

\* updateRecords: the error for a delete call that returned the count n
CountErr(n) == IF n < 1 THEN NoRecordDeleted ELSE Nil

\* api.DeleteRecord(zoneId, version, r.Id) and the check of its count
DeleteRecord(res) ==
    /\ pc = "DeleteRecord"
    /\ LET int == DeleteRecordArg(cur.Id)
       IN  IF ~int.ok
           THEN /\ err' = ParseErr(cur.Id)
                /\ pc' = AfterUpdateRecords(err')
                /\ UNCHANGED <<calls, versions>>
           ELSE LET n == IF res = "ok" THEN RegDeleteCount(newVersion, int) ELSE 0
                    e == IF res = "err" THEN TransportErr("domain.zone.record.delete")
                         ELSE CountErr(n)
                IN  /\ Issue(Call("domain.zone.record.delete", newVersion,
                                  int.digits, NoRec, res))
                    /\ versions' = IF res = "ok" THEN RegDelete(newVersion, int)
                                   ELSE versions
                    /\ err' = e
                    /\ pc' = IF e # Nil THEN AfterUpdateRecords(e) ELSE "AddRecord"
    /\ UNCHANGED <<run, args, rsp, ip, zoneId, newVersion, records, idx, cur, exitCode,
                   stdout, deleted, active, nextId, startRecs, startVers,
                   startActive, prev>>

\* api.AddRecord(zoneId, version, r), then the loop goes on
AddRecord(res) ==
    /\ pc = "AddRecord"
    /\ Issue(Call("domain.zone.record.add", newVersion, <<>>, NewRecord(cur), res))
    /\ IF res = "err"
       THEN /\ err' = TransportErr("domain.zone.record.add")
            /\ pc' = AfterUpdateRecords(err')
            /\ UNCHANGED <<versions, nextId, idx, cur, stdout>>
       ELSE /\ versions' = RegAdd(newVersion, NewRecord(cur))
            /\ nextId' = nextId + 1
            /\ LoopAt(records, NextDiff(records, idx + 1, ip), ip)
            /\ err' = err
    /\ UNCHANGED <<run, args, rsp, ip, zoneId, newVersion, records, exitCode, deleted,
                   active, startRecs, startVers,
                   startActive, prev>>

\* a client that does not look at the boolean the call returned
BoolCallErrIgnoreFalse(op, res, failed) ==
    IF res = "err" THEN TransportErr(op) ELSE Nil

\* the error of a call whose result is a boolean
BoolCallErr(op, res, failed) ==
    IF res = "err" THEN TransportErr(op)
    ELSE IF res = "false" THEN failed
    ELSE Nil

\* a rollback whose own failure replaces the error of updateRecords
RollbackErrorMasked(e, e2) == IF e2 # Nil THEN e2 ELSE e

\* the error checkIP returns after the rollback: e is the error of
\* updateRecords, e2 the one of DeleteZoneVersion
RollbackError(e, e2) == e

\* a rollback that deletes the version the run started from
RollbackVersionActive(version) == active

\* the version the rollback of checkIP deletes
RollbackVersion(version) == version

\* checkIP on an error of updateRecords: api.DeleteZoneVersion(zoneId, newVersion)
DeleteZoneVersion(res) ==
    /\ pc = "rollback"
    /\ Issue(Call("domain.zone.version.delete", RollbackVersion(newVersion), <<>>,
                  NoRec, res))
    /\ LET e2 == BoolCallErr("domain.zone.version.delete", res, DeletionFailed)
       IN  /\ stdout' = stdout
                \o <<"failed to apply records, deleting zone version">>
                \o (IF e2 # Nil THEN <<"zone version deletion failed">> ELSE <<>>)
           /\ Return(RollbackError(err, e2))
    /\ IF res = "ok" /\ RollbackVersion(newVersion) \in 1..Len(versions)
       THEN /\ versions' = RegDeleteVersion(RollbackVersion(newVersion))
            /\ deleted' = deleted \cup {RollbackVersion(newVersion)}
       ELSE UNCHANGED <<versions, deleted>>
    /\ UNCHANGED <<run, args, rsp, ip, zoneId, newVersion, records, idx, cur, active,
                   nextId, startRecs, startVers,
                   startActive, prev>>

\* api.SetZoneVersion(zoneId, newVersion) and the end of checkIP
SetZoneVersion(res) ==
    /\ pc = "SetZoneVersion"
    /\ Issue(Call("domain.zone.version.set", newVersion, <<>>, NoRec, res))
    /\ LET e == BoolCallErr("domain.zone.version.set", res, ActivationFailed)
       IN  /\ active' = IF res = "ok" THEN newVersion ELSE active
           /\ IF e # Nil
              THEN /\ Say("zone activation failed")
                   /\ Return(e)
              ELSE /\ Say("zone activated")
                   /\ Return(IPChanged(ip))
    /\ UNCHANGED <<run, args, rsp, ip, zoneId, newVersion, records, idx, cur, versions,
                   deleted, nextId, startRecs, startVers,
                   startActive, prev>>

Next ==
    \/ \E argv \in CommandLines : Start(argv)
    \/ \E response \in HTTPResponses : GetMyIP(response)
    \/ \E res \in {"ok", "err", "noclient"} : GetZoneId(res)
    \/ \E res \in {"ok", "err"} : GetZoneRecords(res)
    \/ \E res \in {"ok", "err"} : CopyZoneVersion(res)
    \/ \E res \in {"ok", "err"} : UpdateRecordsList(res)
    \/ \E res \in {"ok", "zero", "err"} : DeleteRecord(res)
    \/ \E res \in {"ok", "err"} : AddRecord(res)
    \/ \E res \in {"ok", "false", "err"} : DeleteZoneVersion(res)
    \/ \E res \in {"ok", "false", "err"} : SetZoneVersion(res)

Spec == Init /\ [][Next]_vars

\* the process is between its start and its exit
Running == pc \notin {"idle", "exited"}

\* a running process takes its next step: every call is synchronous and
\* returns, with a result or an error, within the timeout of its transport
\* (5 s for the IP endpoint, 60 s for the registrar)
FairSpec == Spec /\ WF_vars(Running /\ Next)

(* ------------------------------ properties ------------------------------ *)
OpInfo     == "domain.info"
OpList     == "domain.zone.record.list"
OpClone    == "domain.zone.version.new"
OpDelete   == "domain.zone.record.delete"
OpAdd      == "domain.zone.record.add"
OpActivate == "domain.zone.version.set"
OpDeleteVersion == "domain.zone.version.delete"

Exited == pc = "exited"

\* positions of the calls of this run with op among ops
CallsAt(ops) == {i \in 1..Len(calls) : calls[i].op \in ops}

NumCalls(ops) == Cardinality(CallsAt(ops))

NumLines(line) == Cardinality({i \in 1..Len(stdout) : stdout[i] = line})

AllCallsOk == \A i \in 1..Len(calls) : calls[i].res = "ok"

\* the listing of the active version was obtained in this run
ListedActive ==
    \E i \in 1..Len(calls) :
        calls[i].op = OpList /\ calls[i].version = 0 /\ calls[i].res = "ok"

IsDiffering(r, addr) == r.Type = "A" /\ r.Value # addr

\* the "A" records of recs whose value is not addr, in listing order
RECURSIVE Differing(_, _)
Differing(recs, addr) ==
    IF recs = <<>> THEN <<>>
    ELSE (IF IsDiffering(recs[1], addr) THEN <<recs[1]>> ELSE <<>>)
            \o Differing(Tail(recs), addr)

IsInteger(id) == ParseInt(id).ok

\* the version this run's clone call creates
ClonedVersion == startVers + 1

\* the calls of a run up to and including the listing of the cloned version
Preamble ==
    << Call(OpInfo, 0, <<>>, NoRec, "ok"),
       Call(OpList, 0, <<>>, NoRec, "ok"),
       Call(OpClone, 0, <<>>, NoRec, "ok"),
       Call(OpList, ClonedVersion, <<>>, NoRec, "ok") >>

\* one successful delete call followed by one successful add call for each
\* record of recs
RECURSIVE Pairs(_, _)
Pairs(recs, addr) ==
    IF recs = <<>> THEN <<>>
    ELSE << Call(OpDelete, ClonedVersion, ParseInt(recs[1].Id).digits, NoRec, "ok"),
            Call(OpAdd, ClonedVersion, <<>>,
                 Rec(<<>>, recs[1].Type, recs[1].Name, addr, recs[1].TTL), "ok") >>
            \o Pairs(Tail(recs), addr)

IsPrefix(a, b) == Len(a) <= Len(b) /\ SubSeq(b, 1, Len(a)) = a

\* C1: when the listing of the active version holds no "A" record whose value
\* differs from the resolved IP (none of type "A" at all included), the run
\* ends at once with "no changes", a nil error and exit status 0, and no
\* clone, delete-record, add-record, activate or delete-version call is
\* issued.
C1_NoDriftNoMutation ==
    (ListedActive /\ Differing(startRecs, ip) = <<>>)
        => /\ Exited
           /\ Outcome = "no changes"
           /\ err = Nil
           /\ NumCalls({OpClone, OpDelete, OpAdd, OpActivate, OpDeleteVersion}) = 0
           /\ versions[active] = startRecs

C1_Witness ==
    /\ Exited /\ ListedActive
    /\ Differing(startRecs, ip) = <<>>
    /\ \E i \in 1..Len(startRecs) : startRecs[i].Type = "A"
    /\ \E i \in 1..Len(startRecs) : startRecs[i].Type # "A"

\* the run found drift and every remote call it issued succeeded
DriftAllOk ==
    /\ Exited /\ ListedActive /\ AllCallsOk
    /\ Differing(startRecs, ip) # <<>>

FullUpdate ==
    Preamble \o Pairs(Differing(records, ip), ip)
        \o <<Call(OpActivate, ClonedVersion, <<>>, NoRec, "ok")>>

AllDifferingParse ==
    \A i \in 1..Len(records) :
        IsDiffering(records[i], ip) => IsInteger(records[i].Id)

\* C2 as stated: with drift and no failing remote call the run issues one
\* clone, one delete+add pair per differing record, then one activation.
C2_Original == DriftAllOk => calls = FullUpdate

\* C2 (amended): with drift, no failing remote call and every differing "A"
\* record's identifier parsing as a 64-bit integer, the calls of the run are
\* the zone lookup, the listing, one clone, the listing of the clone, one
\* delete immediately followed by one add per differing record in listing
\* order, and one activation; and an activation call is only ever issued
\* after all those pairs.
C2_CloneThenPairsThenActivate ==
    /\ (DriftAllOk /\ AllDifferingParse) => calls = FullUpdate
    /\ \A k \in CallsAt({OpActivate}) :
          /\ k = Len(calls)
          /\ SubSeq(calls, 1, k - 1) = SubSeq(FullUpdate, 1, Len(FullUpdate) - 1)

C2_Witness ==
    /\ DriftAllOk /\ AllDifferingParse
    /\ Len(Differing(records, ip)) >= 2
    /\ Len(Differing(records, ip)) < Len(records)
    /\ Outcome = "changed"

\* positions of the delete-record and add-record calls that failed
FailedApplyCalls ==
    {i \in CallsAt({OpDelete, OpAdd}) : calls[i].res # "ok"}

\* the error a call reports
ErrorOf(c) ==
    IF c.res = "zero" THEN NoRecordDeleted ELSE TransportErr(c.op)

\* C3: when a delete-record or add-record call has failed, the run ends with
\* exactly one delete-version call, issued for the version cloned in this
\* run, with no activation call, and with the error of the failing call as
\* the error checkIP returns, whatever the delete-version call answered.
C3_RollbackKeepsOriginalError ==
    (Exited /\ FailedApplyCalls # {})
        => /\ NumCalls({OpDeleteVersion}) = 1
           /\ \A i \in CallsAt({OpDeleteVersion}) :
                 calls[i].version = ClonedVersion /\ i = Len(calls)
           /\ NumCalls({OpActivate}) = 0
           /\ Cardinality(FailedApplyCalls) = 1
           /\ \A i \in FailedApplyCalls : err = ErrorOf(calls[i])
           /\ Outcome = "failed"

C3_Witness ==
    /\ Exited
    /\ \E i \in FailedApplyCalls : calls[i].op = OpAdd
    /\ \E i \in CallsAt({OpDeleteVersion}) : calls[i].res = "false"
    /\ err = TransportErr(OpAdd)

\* the clone call of this run returned a new version
Cloned ==
    \E i \in CallsAt({OpClone}) : calls[i].res = "ok"

\* C4 as stated: a run that obtained a version from the clone call ends with
\* that version activated or with a delete-version call issued for it.
C4_ClonedVersionActivatedOrDeleted ==
    (Exited /\ Cloned)
        => \/ active = ClonedVersion
           \/ \E i \in CallsAt({OpDeleteVersion}) : calls[i].version = ClonedVersion

\* every "A" record of recs has addr as value
FullyUpdated(recs, addr) ==
    \A i \in 1..Len(recs) : recs[i].Type = "A" => recs[i].Value = addr

\* C5: in every state of every run the record set of the active version is
\* the one that was active when the run started, or one in which every "A"
\* record has the resolved IP as value; and the active version only changes
\* to the version cloned in this run.
C5_ActiveNeverHalfUpdated ==
    /\ \/ versions[active] = startRecs
       \/ FullyUpdated(versions[active], ip)
    /\ versions[active] # startRecs => active = ClonedVersion
    /\ active \notin deleted

\* a run that was rolled back after some record had been replaced (or only
\* deleted) in the cloned version
C5_Witness ==
    /\ Exited /\ Outcome = "failed"
    /\ NumCalls({OpDelete}) >= 1
    /\ \E i \in CallsAt({OpDeleteVersion}) : calls[i].res # "ok"
    /\ versions[ClonedVersion] # startRecs
    /\ ~FullyUpdated(versions[ClonedVersion], ip)
    /\ versions[active] = startRecs

\* C6: a run that follows a run ended "no changes" or "changed", resolves
\* the same IP and sees no call fail, reports "no changes", issues no clone
\* call and leaves the number of zone versions as it found it.
C6_SecondRunIdempotent ==
    (/\ run >= 2 /\ Exited
     /\ prev.outcome \in {"no changes", "changed"}
     /\ ListedActive /\ AllCallsOk
     /\ ip = prev.ip)
        => /\ Outcome = "no changes"
           /\ NumCalls({OpClone}) = 0
           /\ Len(versions) = startVers
           /\ exitCode = 0

C6_Witness ==
    /\ run = 2 /\ Exited
    /\ prev.outcome = "changed"
    /\ ListedActive /\ AllCallsOk
    /\ ip = prev.ip
    /\ Outcome = "no changes"
    /\ startVers = 2

\* position in recs of the first differing "A" record whose identifier does
\* not parse, 0 when there is none
FirstUnparsable(recs, addr) ==
    LET bad == {i \in 1..Len(recs) :
                  IsDiffering(recs[i], addr) /\ ~IsInteger(recs[i].Id)}
    IN  IF bad = {} THEN 0 ELSE CHOOSE i \in bad : \A j \in bad : i <= j

\* updateRecords reached the unparsable record, every call before it having
\* succeeded, and the validation failure was raised
ValidationFailureRaised ==
    /\ pc \in {"rollback", "exited"}
    /\ FirstUnparsable(records, ip) # 0
    /\ \A i \in 1..Len(calls) :
          calls[i].op # OpDeleteVersion => calls[i].res = "ok"

\* C7 as stated: when the validation failure of a record identifier is
\* raised, no clone, delete-record, add-record or activate call has been issued.
C7_Original ==
    ValidationFailureRaised
        => NumCalls({OpClone, OpDelete, OpAdd, OpActivate}) = 0

\* C7 (amended): when the validation failure of a record identifier is
\* raised, the calls issued so far are the lookups, one clone call and the
\* delete+add pairs of the differing records listed before the unparsable
\* one; no activate call is issued in a run whose listing of the cloned
\* version holds such a record, the active version stays the one the run
\* started with, and the run ends "failed" with the parse error.
C7_ValidationAbortsBeforeActivation ==
    LET k == FirstUnparsable(records, ip)
    IN  /\ k # 0 => /\ NumCalls({OpActivate}) = 0
                    /\ versions[active] = startRecs
                    /\ pc # "SetZoneVersion"
        /\ ValidationFailureRaised
              => /\ err = ParseErr(records[k].Id)
                 /\ IsPrefix(Preamble
                               \o Pairs(Differing(SubSeq(records, 1, k - 1), ip), ip),
                             calls)
                 /\ NumCalls({OpClone}) = 1
                 /\ Exited => Outcome = "failed"

C7_Witness ==
    /\ ValidationFailureRaised /\ Exited
    /\ NumCalls({OpAdd}) >= 1
    /\ NumCalls({OpDeleteVersion}) = 1

\* C8: no delete-record call is issued for a differing "A" record whose
\* identifier does not parse as an integer, and no record listed after the
\* first such record is deleted or added: the delete and add calls of the
\* run are at most the pairs of the differing records listed before it.
C8_NoCallForUnparsableNorAfter ==
    LET k == FirstUnparsable(records, ip)
        applied == SelectSeq(calls, LAMBDA c : c.op \in {OpDelete, OpAdd})
        before == Pairs(Differing(SubSeq(records, 1, k - 1), ip), ip)
    IN  k # 0 =>
          /\ Len(applied) <= Len(before)
          /\ \A i \in 1..Len(applied) :
                /\ applied[i].op = before[i].op
                /\ applied[i].id = before[i].id
                /\ applied[i].rec = before[i].rec
          /\ NumLines("updating") <= Len(Differing(SubSeq(records, 1, k), ip))

\* the unparsable record was reached after a pair was applied, with a
\* differing record listed after it
C8_Witness ==
    LET k == FirstUnparsable(records, ip)
    IN  /\ Exited /\ k # 0
        /\ err = ParseErr(records[k].Id)
        /\ NumCalls({OpAdd}) = 1
        /\ \E j \in (k + 1)..Len(records) :
              IsDiffering(records[j], ip) /\ IsInteger(records[j].Id)

\* C9: the process exits with status 0 exactly when the run ended "no
\* changes"; a run that ended "changed" or "failed" exits non-zero.
C9_ExitZeroIffNoChanges ==
    /\ Exited => (exitCode = 0 <=> Outcome = "no changes")
    /\ (Exited /\ Outcome \in {"changed", "failed"}) => exitCode > 0
    /\ ~Exited => exitCode = -1 \/ run = 0

C9_Witness ==
    /\ Exited /\ Outcome = "changed" /\ exitCode = 1
    /\ active = ClonedVersion

\* the public-IP endpoint answered, and not with a body that passes the
\* syntax check of getMyIP
ResolutionFailed ==
    /\ rsp # NoResponse
    /\ rsp.kind # "ok" \/ ~ReIPMatchString(rsp.body)

\* C10: when IP resolution fails or the resolved value does not pass the
\* syntax check, the run ends "failed" with no registrar call issued at all.
C10_NoCallWithoutIP ==
    ResolutionFailed
        => /\ calls = <<>>
           /\ Exited
           /\ Outcome = "failed"
           /\ versions[active] = startRecs /\ Len(versions) = startVers

C10_Witness ==
    /\ ResolutionFailed /\ Exited
    /\ rsp.kind = "ok"
    /\ calls = <<>>
    /\ Changed(startRecs, IP1)

\* the number of positional arguments of a command line
Positionals(argv) ==
    CASE argv = "key domain" -> 2 [] argv = "key" -> 1 [] OTHER -> 0

\* the flags of the command line parse
FlagsParse(argv) == argv # "-x"

\* C11 as stated: a command line with fewer than two positional arguments
\* makes the run exit non-zero with the usage message on standard output.
C11_Original ==
    (run >= 1 /\ Positionals(args) < 2)
        => Exited /\ exitCode > 0 /\ NumLines("usage") >= 1

\* C11 (amended): a command line whose flags parse and that has fewer than
\* two positional arguments makes the run exit with status 1 and the error
\* "missing api-key argument" or "missing domain argument", with nothing on
\* standard output and no call issued; the usage message is written (and the
\* exit status is 1) only when flag parsing itself fails.
C11_MissingArgumentIsAnError ==
    /\ (run >= 1 /\ Positionals(args) < 2 /\ FlagsParse(args))
          => /\ Exited /\ exitCode = 1
             /\ err = MissingArg(IF Positionals(args) < 1 THEN "api-key" ELSE "domain")
             /\ stdout = <<>>
             /\ calls = <<>> /\ rsp = NoResponse
    /\ NumLines("usage") >= 1
          => ~FlagsParse(args) /\ Exited /\ exitCode = 1 /\ calls = <<>>

C11_Witness ==
    /\ run = 2 /\ args = "key" /\ Exited
    /\ err = MissingArg("domain") /\ exitCode = 1
    /\ stdout = <<>>

\* positions of the delete-record calls that returned a count below 1
ZeroCountCalls == {i \in CallsAt({OpDelete}) : calls[i].res = "zero"}

\* C12: a delete-record call that returns, without transport error, a count
\* below 1 is a failure: no delete or add call follows it, no activation
\* call is issued, the only call after it is one delete-version call for the
\* cloned version, and the run ends "failed" with "no record deleted".
C12_ZeroCountAborts ==
    \A i \in ZeroCountCalls :
        /\ pc \in {"rollback", "exited"}
        /\ \A j \in CallsAt({OpDelete, OpAdd, OpActivate}) : j <= i
        /\ NumCalls({OpActivate}) = 0
        /\ NumLines("updating") = NumCalls({OpDelete})
        /\ active = startActive
        /\ Exited => /\ Len(calls) = i + 1
                     /\ calls[i + 1].op = OpDeleteVersion
                     /\ calls[i + 1].version = ClonedVersion
                     /\ err = NoRecordDeleted
                     /\ Outcome = "failed" /\ exitCode = 1

\* the second differing record's delete returned 0, a third one follows
C12_Witness ==
    /\ Exited /\ ZeroCountCalls # {}
    /\ NumCalls({OpAdd}) = 1
    /\ Len(Differing(records, ip)) = 3
    /\ err = NoRecordDeleted

\* C13: when the clone call fails the run ends with that error and the
\* failed clone call is the last registrar call of the run: no listing,
\* delete-record, add-record, activation or delete-version call follows,
\* and the registrar holds the versions it held.
C13_CloneFailureEndsRun ==
    \A i \in CallsAt({OpClone}) :
        calls[i].res # "ok"
            => /\ Exited
               /\ i = Len(calls)
               /\ err = TransportErr(OpClone)
               /\ NumCalls({OpDelete, OpAdd, OpActivate, OpDeleteVersion}) = 0
               /\ Len(versions) = startVers /\ active = startActive
               /\ Outcome = "failed" /\ exitCode = 1

C13_Witness ==
    /\ Exited /\ Len(calls) = 3
    /\ calls[3].op = OpClone /\ calls[3].res = "err"
    /\ Differing(startRecs, ip) # <<>>

\* the error an activation call reports
ActivationErrorOf(c) ==
    IF c.res = "false" THEN ActivationFailed ELSE TransportErr(OpActivate)

\* C14: a run ends "changed" only when its last call is an activation call
\* that returned true without transport error; when the activation call
\* returns false or its transport fails, the run ends "failed" with the
\* activation error, prints no "zone activated" and is never "changed".
C14_ChangedOnlyOnTrueActivation ==
    /\ Outcome = "changed"
          => /\ calls # <<>>
             /\ calls[Len(calls)].op = OpActivate
             /\ calls[Len(calls)].res = "ok"
             /\ calls[Len(calls)].version = ClonedVersion
             /\ err = IPChanged(ip)
             /\ active = ClonedVersion
    /\ \A i \in CallsAt({OpActivate}) :
          calls[i].res # "ok"
             => /\ Exited /\ Outcome = "failed"
                /\ err = ActivationErrorOf(calls[i])
                /\ NumLines("zone activated") = 0
                /\ active = startActive

C14_Witness ==
    /\ Exited /\ Outcome = "failed"
    /\ \E i \in CallsAt({OpActivate}) : calls[i].res = "false"
    /\ err = ActivationFailed

\* a record without the identifier the registrar gave it
Content(r) == [r EXCEPT !.Id = <<>>]

Contents(recs) == [i \in 1..Len(recs) |-> Content(recs[i])]

\* the records of recs that are not differing "A" records, in listing order
RECURSIVE Kept(_, _)
Kept(recs, addr) ==
    IF recs = <<>> THEN <<>>
    ELSE (IF IsDiffering(recs[1], addr) THEN <<>> ELSE <<recs[1]>>)
            \o Kept(Tail(recs), addr)

\* what replaces r: same type, name and TTL, addr as value
ReplacementOf(r, addr) == Rec(<<>>, r.Type, r.Name, addr, r.TTL)

\* C15: every delete-record call carries the identifier of a differing "A"
\* record of the cloned version's listing and every add-record call carries
\* such a record's type, name and TTL with the resolved IP as value; after a
\* run that ended "changed" the active version holds, identifiers apart, the
\* non-"A" records and the matching "A" records of the previous active
\* version unchanged, and one replacement per differing "A" record.
C15_OnlyDifferingARecordsReplaced ==
    LET diff == Differing(records, ip)
    IN  /\ \A i \in CallsAt({OpDelete}) :
              \E j \in 1..Len(diff) : calls[i].id = ParseInt(diff[j].Id).digits
        /\ \A i \in CallsAt({OpAdd}) :
              /\ calls[i].rec.Type = "A" /\ calls[i].rec.Value = ip
              /\ \E j \in 1..Len(diff) : calls[i].rec = ReplacementOf(diff[j], ip)
        /\ Outcome = "changed"
              => /\ NumCalls({OpDelete}) = Len(Differing(startRecs, ip))
                 /\ NumCalls({OpAdd}) = Len(Differing(startRecs, ip))
                 /\ Contents(versions[active])
                       = Contents(Kept(startRecs, ip))
                           \o [j \in 1..Len(Differing(startRecs, ip)) |->
                                 ReplacementOf(Differing(startRecs, ip)[j], ip)]

C15_Witness ==
    /\ Outcome = "changed"
    /\ Len(startRecs) = 3
    /\ Len(Differing(startRecs, ip)) = 1
    /\ \E i \in 1..3 : startRecs[i].Type # "A"
    /\ \E i \in 1..3 : startRecs[i].Type = "A" /\ startRecs[i].Value = ip

\* C16 as stated: every value an add-record call writes into an "A" record
\* is, as a whole, a dotted-quad IPv4 string: a string that only contains
\* one is rejected by getMyIP and never written to the zone.
C16_WrittenValuesAreDottedQuads ==
    \A i \in CallsAt({OpAdd}) :
        calls[i].res = "ok" => IsDottedQuad(calls[i].rec.Value)

\* positions of the registrar calls that failed (a transport error, a false
\* result, a count below 1)
FailedCalls == {i \in 1..Len(calls) : calls[i].res # "ok"}

\* C17: after the first failed registrar call of a run at most one further
\* call is issued, and that call is a delete-version call for the version
\* cloned in this run; a failed call is never issued again.
C17_AtMostRollbackAfterFailure ==
    \A i \in FailedCalls :
        (\A j \in 1..(i - 1) : j \notin FailedCalls)
            => /\ Len(calls) <= i + 1
               /\ Len(calls) = i + 1
                     => /\ calls[i + 1].op = OpDeleteVersion
                        /\ calls[i + 1].version = ClonedVersion
                        /\ calls[i].op # OpDeleteVersion
                        /\ Cloned /\ Exited
               /\ pc \in {"rollback", "exited"}
               /\ pc = "rollback" => calls[i].op \in {OpList, OpDelete, OpAdd}
               /\ NumCalls({OpActivate}) = 1 => calls[i].op = OpActivate

\* the listing of the cloned version failed, and so did the rollback
C17_Witness ==
    /\ Exited /\ Len(calls) = 5
    /\ calls[4].op = OpList /\ calls[4].res = "err"
    /\ calls[5].op = OpDeleteVersion /\ calls[5].res = "false"

\* the identifiers, as integers, of the records of a listing
IntIds(recs) ==
    {ParseInt(recs[j].Id).digits : j \in {k \in 1..Len(recs) : IsInteger(recs[k].Id)}}

\* C18: every delete-record and add-record call targets the version cloned
\* in this run, which is neither 0 nor the active version; it follows a
\* successful listing of that version, and every delete-record call carries
\* an identifier of that listing, none of the listing of the active version.
C18_FreshListingOfClonedVersion ==
    /\ \A i \in CallsAt({OpDelete, OpAdd}) :
          /\ calls[i].version = ClonedVersion
          /\ calls[i].version # 0
          /\ calls[i].version # startActive
          /\ \E j \in 1..(i - 1) :
                /\ calls[j].op = OpList /\ calls[j].res = "ok"
                /\ calls[j].version = ClonedVersion
          /\ ~Exited => active = startActive
    /\ \A i \in CallsAt({OpDelete}) :
          /\ calls[i].id \in IntIds(records)
          /\ calls[i].id \notin IntIds(startRecs)
    /\ NumCalls({OpDelete, OpAdd}) > 0
          => Contents(records) = Contents(startRecs)

\* a second change, applied to a version that was itself a clone
C18_Witness ==
    /\ run = 2 /\ Outcome = "changed"
    /\ startActive = 2
    /\ NumCalls({OpDelete}) >= 2

\* C19: a delete-version call is only issued for the version this run's
\* clone call returned, which is not the active version; a run that ends
\* "changed" issues none and leaves the previously active version and its
\* records in place; no version that is or was active at the start of a run
\* is deleted.
C19_OnlyOwnCloneIsDeleted ==
    /\ \A i \in CallsAt({OpDeleteVersion}) :
          /\ Cloned
          /\ calls[i].version = ClonedVersion
          /\ calls[i].version \notin {0, active, startActive}
          /\ Outcome # "changed"
    /\ Outcome = "changed"
          => /\ NumCalls({OpDeleteVersion}) = 0
             /\ versions[startActive] = startRecs
             /\ Len(versions) = startVers + 1
    /\ \A v \in deleted : v \notin {1, active, startActive}

\* a change activated after an earlier run had rolled its clone back
C19_Witness ==
    /\ run = 2 /\ Outcome = "changed"
    /\ deleted = {2} /\ active = 3
    /\ NumCalls({OpDeleteVersion}) = 0

\* C20: a started run reaches its exit, where exactly one of the three
\* outcomes holds, agreeing with the error returned and the exit status;
\* the range loop of updateRecords only moves forward over one listing of
\* the cloned version, and an exited process does nothing more.
C20_RunTerminatesWithOneOutcome ==
    /\ Running ~> Exited
    /\ [](Exited =>
            /\ NumLines("unchanged ip") + NumLines("zone activated") <= 1
            /\ Outcome = "no changes" <=> (err = Nil /\ exitCode = 0)
            /\ Outcome = "changed" <=> err.kind = "ip changed"
            /\ Outcome = "failed" <=> (exitCode = 1 /\ err.kind # "ip changed"))
    /\ [](/\ Cardinality({i \in CallsAt({OpList}) : calls[i].version # 0}) <= 1
          /\ NumLines("updating") <= Len(Differing(records, ip))
          /\ NumCalls({OpDelete}) <= NumLines("updating")
          /\ NumCalls({OpAdd}) <= NumCalls({OpDelete}))
    /\ [][/\ (pc = "AddRecord" /\ pc' = "DeleteRecord") => idx' > idx
          /\ (Running /\ records # <<>>) => records' = records
          /\ Exited => run' = run + 1]_vars

\* a run over a listing of three records, two of them replaced, has ended
C20_Witness ==
    /\ Exited /\ Outcome = "changed"
    /\ Len(records) = 3
    /\ NumLines("updating") = 2
    /\ idx = 4

====
